---- MODULE Spec2Model ----
(***************************************************************************)
(* Model of the colored-graph edge enumerator of graph-enumeration:        *)
(* the binding generatePyEdges (argument validation, single-node case),    *)
(* generateEdges (shell enumeration, permutation table, candidate          *)
(* construction, isomorphism deduplication, edge-list extraction) and the  *)
(* Graph class.                                                            *)
(*                                                                         *)
(* A triu (std::uint64_t) is modelled as the set of its set bit positions, *)
(* a subset of 0..63, bit 0 being the least significant one; the bitwise   *)
(* and arithmetic operators below are exact on all 64 bits.  A std::vector *)
(* is a sequence; At(s, i) reads its 0-based element i.                    *)
(***************************************************************************)
EXTENDS Integers, Sequences, FiniteSets, TLC

\* ------------------------------------------------------------------ bounds
\* largest node tuple the calls are drawn from (besides one oversized tuple)
MaxNodes == 5
\* a corrupted node value is drawn from -1..MaxColor
MaxColor == 2
\* small degree arguments are drawn from -1..MaxDegreeArg
MaxDegreeArg == 3
\* the first parallel loop is merged in every order when it has at most
\* MaxShellShuffle iterations, and in iteration order (one worker) otherwise
MaxShellShuffle == 2
\* the same for the second parallel loop and MaxShuffle iterations
MaxShuffle == 4
\* calls whose shell loops would visit more than MaxShellWork adjacency
\* values are not explored
MaxShellWork == 500
\* two Graph objects are drawn from the adjacency values with the most
\* edges, as many edge counts as give at most MaxGraphSpace values
MaxGraphSpace == 48
\* the same for a single Graph object and MaxSingleSpace values
MaxSingleSpace == 400
\* tables of more than MaxPermutations permutations are not built
MaxPermutations == 120

\* --------------------------------------------------------------- constants
\* width of triu
TriuWidth == 64
\* largest accepted node count
MaxSize == 11

\* ------------------------------------------------------- vector primitives
At(s, i) == s[i + 1]

Erase(s, i) == SubSeq(s, 1, i) \o SubSeq(s, i + 2, Len(s))

Insert(s, i, x) == SubSeq(s, 1, i) \o <<x>> \o SubSeq(s, i + 1, Len(s))

SetAt(s, i, x) == SubSeq(s, 1, i) \o <<x>> \o SubSeq(s, i + 2, Len(s))

\* the map m with m[key] set to x
MapPut(m, key, x) == (key :> x) @@ m

SetMin(S) == CHOOSE x \in S : \A y \in S : x <= y

SetMax(S) == CHOOSE x \in S : \A y \in S : y <= x

\* -------------------------------------------------- 64-bit unsigned values
BitPositions == 0..(TriuWidth - 1)

\* (triu)1 << k
Bit(k) == IF k \in BitPositions THEN {k} ELSE {}

And(a, b) == a \cap b

Or(a, b) == a \cup b

Not(a) == BitPositions \ a

\* a + 1, wrapping at 2^64
Inc(a) ==
  IF a = BitPositions THEN {}
  ELSE LET k == SetMin(BitPositions \ a) IN {b \in a : b > k} \cup {k}

\* a - 1, wrapping at 0
Dec(a) ==
  IF a = {} THEN BitPositions
  ELSE LET k == SetMin(a) IN {b \in a : b > k} \cup (0..(k - 1))

\* unary minus of an unsigned value
Neg(a) == Inc(Not(a))

Shl(a, k) == {b + k : b \in a} \cap BitPositions

Shr(a, k) == {b - k : b \in {c \in a : c >= k}}

\* a <= b as unsigned 64-bit numbers
Leq(a, b) ==
  IF a = b THEN TRUE
  ELSE LET d == (a \ b) \cup (b \ a) IN SetMax(d) \in b

popcountll(a) == Cardinality(a)

\* __builtin_ctzll: the argument is never 0 in the calls the model reaches
ctzll(a) == SetMin(a)

\* ------------------------------------------------ 32-bit unsigned products
\* nNodes * maxDegree / 2 in unsigned int arithmetic: the product is kept
\* as two 16-bit halves and wraps at 2^32 before the division
MulDiv2U32(a, b) ==
  LET lo == a * (b % 65536)
      hi == a * (b \div 65536) + (lo \div 65536)
      H == hi % 65536
      L == lo % 65536
  IN H * 32768 + (L \div 2)

Min2(a, b) == IF a < b THEN a ELSE b

\* ------------------------------------------------------------- graph.h
\* index of the pair (i, j) in the flattened strict upper triangle
upperTriuIndex(i, j, nNodes) ==
  LET a == IF i > j THEN j ELSE i
      b == IF i > j THEN i ELSE j
  IN a * nNodes - ((a * a + 3 * a) \div 2) + b - 1

\* the pairs (i, j), i < j, in the order of the nested loops
\*   for (i = 0; i < nNodes; ++i) for (j = i + 1; j < nNodes; ++j)
RECURSIVE triuLoop(_, _, _)
triuLoop(i, j, nNodes) ==
  IF i >= nNodes THEN <<>>
  ELSE IF j >= nNodes THEN triuLoop(i + 1, i + 2, nNodes)
  ELSE <<<<i, j>>>> \o triuLoop(i, j + 1, nNodes)

\* ---------------------------------------------------- edge_generator.cpp
triuSizeOf(nNodes) == (nNodes * (nNodes - 1)) \div 2

\* a degree filter that leaves out the edges (u, k) with u < k
calculateDegreeFilterUpperOnly(nNodes) ==
  LET maxSize == triuSizeOf(nNodes)
  IN [k1 \in 1..nNodes |->
        LET k == k1 - 1
        IN UNION {Bit(maxSize - 1 - upperTriuIndex(k, v, nNodes)) : v \in (k + 1)..(nNodes - 1)}]

\* one mask per node, selecting the bits of the pairs that contain the node
calculateDegreeFilter(nNodes) ==
  LET maxSize == triuSizeOf(nNodes)
  IN [k1 \in 1..nNodes |->
        LET k == k1 - 1
        IN UNION ({Bit(maxSize - 1 - upperTriuIndex(u, k, nNodes)) : u \in 0..(k - 1)}
              \cup {Bit(maxSize - 1 - upperTriuIndex(k, v, nNodes)) : v \in (k + 1)..(nNodes - 1)})]

checkDegrees(triAdjMat, degreeFilter, nNodes, maxDegree, minDegree) ==
  \A i \in 0..(nNodes - 1) :
    LET count == popcountll(And(triAdjMat, At(degreeFilter, i)))
    IN ~(count > maxDegree \/ count < minDegree)

\* t = v | (v - 1); (t + 1) | (((~t & -~t) - 1) >> (ctz(v) + 1))
\* the advance with the freed low bits shifted one place too little
nextBitPermutationShortShift(v) ==
  LET t == Or(v, Dec(v))
  IN Or(Inc(t), Shr(Dec(And(Not(t), Neg(Not(t)))), ctzll(v)))

nextBitPermutation(v) ==
  LET t == Or(v, Dec(v))
  IN Or(Inc(t), Shr(Dec(And(Not(t), Neg(Not(t)))), ctzll(v) + 1))

\* min(nNodes * maxDegree / 2, nNodes * (nNodes - 1) / 2), unsigned int
totalMaxEdgesOf(nNodes, maxDegree) ==
  Min2(MulDiv2U32(nNodes, maxDegree), triuSizeOf(nNodes))

\* one iteration of the while loop of a shell on the loop state (v and the
\* worker's buffer); the state is left alone once the loop condition fails
shellStep(st, end, degreeFilter, nNodes, maxDegree, minDegree) ==
  IF Leq(st.v, end)
  THEN [v |-> nextBitPermutation(st.v),
        buf |-> IF checkDegrees(st.v, degreeFilter, nNodes, maxDegree, minDegree)
                THEN Append(st.buf, st.v) ELSE st.buf]
  ELSE st

\* count iterations of the while loop (evaluated by halving, which keeps the
\* evaluation shallow)
RECURSIVE shellIterate(_, _, _, _, _, _, _)
shellIterate(st, count, end, degreeFilter, nNodes, maxDegree, minDegree) ==
  IF count = 1 THEN shellStep(st, end, degreeFilter, nNodes, maxDegree, minDegree)
  ELSE LET half == shellIterate(st, count \div 2, end, degreeFilter, nNodes, maxDegree,
                                minDegree)
       IN IF half = half \* evaluates half before the second half starts
          THEN shellIterate(half, count - (count \div 2), end, degreeFilter, nNodes,
                            maxDegree, minDegree)
          ELSE half

\* the while loop of one shell, run until its condition fails: the values
\* appended to the worker's buffer
RECURSIVE shellWhile(_, _, _, _, _, _, _)
shellWhile(st, count, end, degreeFilter, nNodes, maxDegree, minDegree) ==
  LET r == shellIterate(st, count, end, degreeFilter, nNodes, maxDegree, minDegree)
  IN IF r = r /\ Leq(r.v, end)
     THEN shellWhile(r, 2 * count, end, degreeFilter, nNodes, maxDegree, minDegree)
     ELSE r.buf

shellStart(i) == Dec(Bit(i))

shellEnd(i, nNodes) == Shl(shellStart(i), triuSizeOf(nNodes) - i)

\* one iteration of the parallel loop over the edge counts
shellBody(i, degreeFilter, nNodes, maxDegree, minDegree) ==
  shellWhile([v |-> shellStart(i), buf |-> <<>>], 1, shellEnd(i, nNodes), degreeFilter,
             nNodes, maxDegree, minDegree)

\* the iterations of the loop over the edge counts
shellRange(nNodes, maxDegree) == (nNodes - 1)..totalMaxEdgesOf(nNodes, maxDegree)

\* indexMap[nodes[i]].push_back(i) for i = 0..nNodes-1
buildIndexMap(nodes) ==
  [c \in {nodes[k] : k \in 1..Len(nodes)} |->
     SelectSeq([k \in 1..Len(nodes) |-> k - 1], LAMBDA x : At(nodes, x) = c)]

\* the recursion works on the three containers it is handed by reference;
\* it returns them as a record
RECURSIVE generatePermutations(_, _, _, _, _)
RECURSIVE permutationLoop(_, _, _, _)
\* a loop that puts the index it removed back at the end of its pool
RECURSIVE permutationLoopRestoreAtEnd(_, _, _, _)
permutationLoopRestoreAtEnd(st, nodes, currentIndex, i) ==
  LET currentValue == At(nodes, currentIndex)
      indices == st.indexMap[currentValue]
  IN IF i < Len(indices)
     THEN LET index == At(indices, i)
              erased == MapPut(st.indexMap, currentValue, Erase(indices, i))
              cp == SetAt(st.currentPermutation, currentIndex, index)
              r == generatePermutations(st.permutations, nodes, cp, erased, currentIndex + 1)
              restored == MapPut(r.indexMap, currentValue,
                                 Append(r.indexMap[currentValue], index))
          IN permutationLoopRestoreAtEnd([permutations |-> r.permutations,
                                          currentPermutation |-> r.currentPermutation,
                                          indexMap |-> restored], nodes, currentIndex, i + 1)
     ELSE st

generatePermutations(permutations, nodes, currentPermutation, indexMap, currentIndex) ==
  IF currentIndex = Len(nodes)
  THEN [permutations |-> Append(permutations, currentPermutation),
        currentPermutation |-> currentPermutation,
        indexMap |-> indexMap]
  ELSE permutationLoop([permutations |-> permutations,
                        currentPermutation |-> currentPermutation,
                        indexMap |-> indexMap], nodes, currentIndex, 0)

permutationLoop(st, nodes, currentIndex, i) ==
  LET currentValue == At(nodes, currentIndex)
      indices == st.indexMap[currentValue]
  IN IF i < Len(indices)
     THEN LET index == At(indices, i)
              erased == MapPut(st.indexMap, currentValue, Erase(indices, i))
              cp == SetAt(st.currentPermutation, currentIndex, index)
              r == generatePermutations(st.permutations, nodes, cp, erased, currentIndex + 1)
              restored == MapPut(r.indexMap, currentValue,
                                 Insert(r.indexMap[currentValue], i, index))
          IN permutationLoop([permutations |-> r.permutations,
                              currentPermutation |-> r.currentPermutation,
                              indexMap |-> restored], nodes, currentIndex, i + 1)
     ELSE st

\* the permutation table generateEdges builds
permutationTable(nodes) ==
  generatePermutations(<<>>, nodes, [k \in 1..Len(nodes) |-> 0], buildIndexMap(nodes), 0)

\* adjTriuMasks[count] = 1 << (numTriuBits - count)
buildAdjTriuMasks(nNodes) ==
  LET numTriuBits == triuSizeOf(nNodes) - 1
  IN [c1 \in 1..(numTriuBits + 1) |-> Bit(numTriuBits - (c1 - 1))]

\* -------------------------------------------------------------- Graph
\* the fields of a Graph that differ between the candidates of one call are
\* adjacencyTriu, connected and representation; nodes, degreeFilter,
\* adjacencyTriuMasks and permutations point to the tables of the call
isEdge(adjacencyTriu, u, v, nNodes, adjacencyTriuMasks) ==
  IF u = v THEN FALSE
  ELSE And(adjacencyTriu, At(adjacencyTriuMasks, upperTriuIndex(u, v, nNodes))) # {}

\* the for loop over i inside the breadth-first search
RECURSIVE bfsScan(_, _, _, _, _, _, _)
bfsScan(i, current, visited, queue, adjacencyTriu, nNodes, adjacencyTriuMasks) ==
  IF i >= nNodes THEN [visited |-> visited, queue |-> queue]
  ELSE IF And(visited, Bit(i)) = {}
          /\ isEdge(adjacencyTriu, current, i, nNodes, adjacencyTriuMasks)
       THEN bfsScan(i + 1, current, Or(visited, Bit(i)), Append(queue, i),
                    adjacencyTriu, nNodes, adjacencyTriuMasks)
       ELSE bfsScan(i + 1, current, visited, queue, adjacencyTriu, nNodes,
                    adjacencyTriuMasks)

\* the while loop of the breadth-first search: the final visitedCount
RECURSIVE bfsWhile(_, _, _, _, _, _)
bfsWhile(queue, visited, visitedCount, adjacencyTriu, nNodes, adjacencyTriuMasks) ==
  IF queue = <<>> THEN visitedCount
  ELSE LET r == bfsScan(0, Head(queue), visited, Tail(queue), adjacencyTriu, nNodes,
                        adjacencyTriuMasks)
       IN bfsWhile(r.queue, r.visited, visitedCount + 1, adjacencyTriu, nNodes,
                   adjacencyTriuMasks)

\* a connectivity check that is content with reaching a second node
checkConnectedAnyNeighbour(adjacencyTriu, nNodes, adjacencyTriuMasks) ==
  bfsWhile(<<0>>, Bit(0), 0, adjacencyTriu, nNodes, adjacencyTriuMasks) >= 2

checkConnected(adjacencyTriu, nNodes, adjacencyTriuMasks) ==
  bfsWhile(<<0>>, Bit(0), 0, adjacencyTriu, nNodes, adjacencyTriuMasks) = nNodes

\* std::sort of a vector of int
\* a degree list left in node order
keepOrder(s) == s

RECURSIVE sortInts(_)
sortInts(s) ==
  IF s = <<>> THEN <<>>
  ELSE LET m == SetMin({s[k] : k \in 1..Len(s)})
           p == SetMin({k \in 1..Len(s) : s[k] = m})
       IN <<m>> \o sortInts(Erase(s, p - 1))

RECURSIVE concatAll(_)
concatAll(ss) == IF ss = <<>> THEN <<>> ELSE Head(ss) \o concatAll(Tail(ss))

calculateRepresentation(adjacencyTriu, nodes, degreeFilter, adjacencyTriuMasks) ==
  LET nNodes == Len(nodes)
      maxNode == At(nodes, nNodes - 1) + 1
      degreesList ==
        [c1 \in 1..maxNode |->
           LET members == SelectSeq([k \in 1..nNodes |-> k - 1],
                                    LAMBDA x : At(nodes, x) = c1 - 1)
           IN [m \in 1..Len(members) |->
                 popcountll(And(adjacencyTriu, At(degreeFilter, members[m])))]]
      pairs == triuLoop(0, 1, nNodes)
      edgeList(a, b) ==
        Cardinality({count \in 0..(Len(pairs) - 1) :
           /\ And(adjacencyTriu, At(adjacencyTriuMasks, count)) # {}
           /\ LET x == At(nodes, At(pairs, count)[1])
                  y == At(nodes, At(pairs, count)[2])
              IN a = Min2(x, y) /\ b = (IF x > y THEN x ELSE y)})
      upper == SelectSeq(
                 [k \in 1..(maxNode * maxNode) |->
                    <<(k - 1) \div maxNode, (k - 1) % maxNode>>],
                 LAMBDA q : q[1] <= q[2])
  IN <<popcountll(adjacencyTriu)>>
       \o concatAll([c1 \in 1..maxNode |-> sortInts(degreesList[c1])])
       \o [k \in 1..Len(upper) |-> edgeList(upper[k][1], upper[k][2])]

\* Graph::Graph: connectivity and representation are computed eagerly
Graph(nodes, adjacencyTriu, degreeFilter, adjacencyTriuMasks) ==
  [adjacencyTriu |-> adjacencyTriu,
   connected |-> checkConnected(adjacencyTriu, Len(nodes), adjacencyTriuMasks),
   representation |->
     calculateRepresentation(adjacencyTriu, nodes, degreeFilter, adjacencyTriuMasks)]

\* one permutation of the table maps this graph onto the other
permutationMatches(this, other, permutation, nNodes, adjacencyTriuMasks) ==
  \A i \in 0..(nNodes - 1) : \A j \in (i + 1)..(nNodes - 1) :
    isEdge(this.adjacencyTriu, i, j, nNodes, adjacencyTriuMasks)
      = isEdge(other.adjacencyTriu, At(permutation, i), At(permutation, j), nNodes,
               adjacencyTriuMasks)

\* an equality that skips the representations and asks only that every
\* edge of this graph is an edge of the other
operatorEqOneWay(this, other, nNodes, adjacencyTriuMasks, permutations) ==
  \E k \in 1..Len(permutations) :
    \A i \in 0..(nNodes - 1) : \A j \in (i + 1)..(nNodes - 1) :
      isEdge(this.adjacencyTriu, i, j, nNodes, adjacencyTriuMasks)
        => isEdge(other.adjacencyTriu, At(permutations[k], i), At(permutations[k], j),
                  nNodes, adjacencyTriuMasks)

\* an equality that compares the adjacency values and tries no permutation
operatorEqIdentityOnly(this, other, nNodes, adjacencyTriuMasks, permutations) ==
  IF this.representation # other.representation THEN FALSE
  ELSE this.adjacencyTriu = other.adjacencyTriu

\* Graph::operator==
operatorEq(this, other, nNodes, adjacencyTriuMasks, permutations) ==
  IF this.representation # other.representation THEN FALSE
  ELSE \E k \in 1..Len(permutations) :
         permutationMatches(this, other, permutations[k], nNodes, adjacencyTriuMasks)

\* an edge list that pairs every set bit with the mirrored node pair
getEdgesMirrored(adjacencyTriu, nNodes, adjacencyTriuMasks) ==
  SelectSeq(triuLoop(0, 1, nNodes),
            LAMBDA e : isEdge(adjacencyTriu, nNodes - 1 - e[2], nNodes - 1 - e[1], nNodes,
                              adjacencyTriuMasks))

getEdges(adjacencyTriu, nNodes, adjacencyTriuMasks) ==
  SelectSeq(triuLoop(0, 1, nNodes),
            LAMBDA e : isEdge(adjacencyTriu, e[1], e[2], nNodes, adjacencyTriuMasks))

\* ---------------------------------------------------------------- state
VARIABLES
  pc,               \* "idle", "enumerate", "graphs", "returned" or "error"
  nodes,            \* the node tuple of the call, then the vector nodes
  pyMaxDegree,      \* the parsed C int max_degree
  pyMinDegree,      \* the parsed C int min_degree
  error,            \* the message of the exception raised, "" if none
  degreeFilter,     \* generateEdges: degreeFilter
  totalMaxEdges,    \* generateEdges: totalMaxEdges
  shellsDone,       \* iterations of the first parallel loop that were merged
  trius,            \* generateEdges: trius
  permutations,     \* generateEdges: permutations
  adjTriuMasks,     \* generateEdges: adjTriuMasks
  built,            \* iterations of the second parallel loop that were merged
  graphs,           \* generateEdges: graphs
  dedupIdx,         \* number of graphs the filter loop has handled
  uniqueGraphs,     \* generateEdges: uniqueGraphs (representation -> bucket)
  uniqueGraphsList, \* generateEdges: uniqueGraphsList
  result,           \* the list the call returns
  \* the shell loop of one edge count, one iteration of its while loop a step
  wPc,              \* "idle", "loop" or "exit"
  wNodes,           \* nNodes
  wMaxDegree,       \* maxDegree
  wMinDegree,       \* minDegree
  wI,               \* the edge count i of the shell
  wV,               \* v
  wPrev,            \* the value of v in the previous iteration
  wCount,           \* number of iterations of the while loop so far
  wBuf,             \* the worker's private copy of trius
  \* the tables of one call and Graph objects built on them
  gPc,              \* "idle", "tables" or "compared"
  gNodes,           \* nodes
  gDegreeFilter,    \* degreeFilter
  gIndexMap,        \* indexMap once generatePermutations has returned
  gPermutations,    \* permutations
  gAdjTriuMasks,    \* adjTriuMasks
  gGraphs,          \* the Graph objects constructed so far
  gEqual            \* gEqual[a][b]: the result of gGraphs[a] == gGraphs[b]

callVars == <<pc, nodes, pyMaxDegree, pyMinDegree, error, degreeFilter, totalMaxEdges,
              shellsDone, trius, permutations, adjTriuMasks, built, graphs, dedupIdx,
              uniqueGraphs, uniqueGraphsList, result>>

walkVars == <<wPc, wNodes, wMaxDegree, wMinDegree, wI, wV, wPrev, wCount, wBuf>>

graphVars == <<gPc, gNodes, gDegreeFilter, gIndexMap, gPermutations, gAdjTriuMasks,
               gGraphs, gEqual>>

vars == <<callVars, walkVars, graphVars>>

\* ---------------------------------------------------------------- inputs
\* degree arguments that make nNodes * maxDegree pass 2^32 for nNodes = 3, 4
BigDegrees == {1073741824, 1431655766, 1431655767, 2147483647}

MaxDegreeArgs == (-1..MaxDegreeArg) \cup BigDegrees

MinDegreeArgs == -1..MaxDegreeArg

TupleSizes == (0..MaxNodes) \cup {MaxSize + 1}

\* the tuples of length k that satisfy the coloring contract: 0 first, then
\* each value the previous one or the previous one plus one
Colorings(k) ==
  {[i \in 1..k |-> Cardinality({j \in 1..(i - 1) : step[j] = 1})] :
     step \in [1..(k - 1) -> {0, 1}]}

\* the tuples a call is drawn from: the colorings, the colorings with one
\* value replaced, and one tuple that is too long
NodeTuples(k) ==
  IF k <= MaxNodes
  THEN Colorings(k)
         \cup {SetAt(t, p, x) : t \in Colorings(k), p \in 0..(k - 1), x \in -1..MaxColor}
  ELSE {[i \in 1..k |-> 0]}

\* ------------------------------------------------------- generatePyEdges
\* the checks of the for loop over the tuple, from element i on
\* node checks that let a color skip a value
RECURSIVE nodeChecksNonDecreasing(_, _)
nodeChecksNonDecreasing(nodeTuple, i) ==
  IF i >= Len(nodeTuple) THEN ""
  ELSE LET node == At(nodeTuple, i)
       IN IF node < 0 THEN "All node values must be non-negative integers"
          ELSE IF i = 0 /\ node # 0 THEN "The first node value in the tuple must be 0"
          ELSE IF i > 0 /\ node < At(nodeTuple, i - 1)
               THEN "The node values must be strictly increasing"
          ELSE nodeChecksNonDecreasing(nodeTuple, i + 1)

RECURSIVE nodeChecks(_, _)
nodeChecks(nodeTuple, i) ==
  IF i >= Len(nodeTuple) THEN ""
  ELSE LET node == At(nodeTuple, i)
       IN IF node < 0 THEN "All node values must be non-negative integers"
          ELSE IF i = 0 /\ node # 0 THEN "The first node value in the tuple must be 0"
          ELSE IF i > 0 /\ node # At(nodeTuple, i - 1) /\ node # At(nodeTuple, i - 1) + 1
               THEN "The node values must be strictly increasing"
          ELSE nodeChecks(nodeTuple, i + 1)

\* argument checks that look at the tuple size before the degree bounds
argumentErrorSizeFirst(nodeTuple, maxDeg, minDeg) ==
  IF Len(nodeTuple) = 0 THEN "Node value tuple must not be empty"
  ELSE IF Len(nodeTuple) > MaxSize THEN "Only up to 11 nodes are supported"
  ELSE IF maxDeg < minDeg THEN "max_degree must be greater than or equal to min_degree"
  ELSE IF minDeg < 0 THEN "min_degree must be a non-negative integer"
  ELSE nodeChecks(nodeTuple, 0)

\* the message of the exception the argument checks raise, "" if they pass
argumentError(nodeTuple, maxDeg, minDeg) ==
  IF maxDeg < minDeg THEN "max_degree must be greater than or equal to min_degree"
  ELSE IF minDeg < 0 THEN "min_degree must be a non-negative integer"
  ELSE IF Len(nodeTuple) = 0 THEN "Node value tuple must not be empty"
  ELSE IF Len(nodeTuple) > MaxSize THEN "Only up to 11 nodes are supported"
  ELSE nodeChecks(nodeTuple, 0)

RECURSIVE Binomial(_, _)
Binomial(n, k) ==
  IF k < 0 \/ k > n THEN 0
  ELSE IF k = 0 THEN 1
  ELSE (Binomial(n, k - 1) * (n - k + 1)) \div k

RECURSIVE shellWork(_, _, _)
shellWork(i, last, nNodes) ==
  IF i > last THEN 0
  ELSE Binomial(triuSizeOf(nNodes), i) + shellWork(i + 1, last, nNodes)

\* the calls the model explores
withinWork(k, maxDeg, minDeg) ==
  IF k >= 2 /\ k <= MaxSize /\ 0 <= minDeg /\ minDeg <= maxDeg
  THEN shellWork(k - 1, totalMaxEdgesOf(k, maxDeg), k) <= MaxShellWork
  ELSE TRUE

Init ==
  /\ pc = "idle"
  /\ nodes = <<>>
  /\ pyMaxDegree = 0
  /\ pyMinDegree = 0
  /\ error = ""
  /\ degreeFilter = <<>>
  /\ totalMaxEdges = 0
  /\ shellsDone = {}
  /\ trius = <<>>
  /\ permutations = <<>>
  /\ adjTriuMasks = <<>>
  /\ built = {}
  /\ graphs = <<>>
  /\ dedupIdx = 0
  /\ uniqueGraphs = <<>>
  /\ uniqueGraphsList = <<>>
  /\ result = <<>>
  /\ wPc = "idle"
  /\ wNodes = 0
  /\ wMaxDegree = 0
  /\ wMinDegree = 0
  /\ wI = 0
  /\ wV = {}
  /\ wPrev = {}
  /\ wCount = 0
  /\ wBuf = <<>>
  /\ gPc = "idle"
  /\ gNodes = <<>>
  /\ gDegreeFilter = <<>>
  /\ gIndexMap = <<>>
  /\ gPermutations = <<>>
  /\ gAdjTriuMasks = <<>>
  /\ gGraphs = <<>>
  /\ gEqual = <<>>

\* generatePyEdges up to the first parallel region of generateEdges: the
\* argument checks, the single-node answer, degreeFilter and totalMaxEdges
\* a single-node answer without any graph
noGraphs == <<>>

\* the answer for a single node: one graph with an empty edge list
singleNodeResult == << <<>> >>

generatePyEdges ==
  /\ pc = "idle"
  /\ \E maxDeg \in MaxDegreeArgs, minDeg \in MinDegreeArgs, k \in TupleSizes :
       /\ withinWork(k, maxDeg, minDeg)
       /\ \E nodeTuple \in NodeTuples(k) :
            LET e == argumentError(nodeTuple, maxDeg, minDeg)
            IN /\ nodes' = nodeTuple
               /\ pyMaxDegree' = maxDeg
               /\ pyMinDegree' = minDeg
               /\ error' = e
               /\ IF e # ""
                  THEN /\ pc' = "error"
                       /\ UNCHANGED <<degreeFilter, totalMaxEdges, result>>
                  ELSE IF Len(nodeTuple) > 1
                  THEN /\ pc' = "enumerate"
                       /\ degreeFilter' = calculateDegreeFilter(Len(nodeTuple))
                       /\ totalMaxEdges' = totalMaxEdgesOf(Len(nodeTuple), maxDeg)
                       /\ UNCHANGED result
                  ELSE /\ pc' = "returned"
                       /\ result' = singleNodeResult
                       /\ UNCHANGED <<degreeFilter, totalMaxEdges>>
  /\ UNCHANGED <<shellsDone, trius, permutations, adjTriuMasks, built, graphs, dedupIdx,
                 uniqueGraphs, uniqueGraphsList>>
  /\ UNCHANGED <<walkVars, graphVars>>

\* the iteration a single worker would run next
nextInOrder(all, done) == SetMin(all \ done)

\* one iteration of the loop over the edge counts, merged into trius
EnumerateShell(i) ==
  /\ pc = "enumerate"
  /\ i \in shellRange(Len(nodes), pyMaxDegree) \ shellsDone
  /\ \/ Cardinality(shellRange(Len(nodes), pyMaxDegree)) <= MaxShellShuffle
     \/ i = nextInOrder(shellRange(Len(nodes), pyMaxDegree), shellsDone)
  /\ trius' = trius \o shellBody(i, degreeFilter, Len(nodes), pyMaxDegree, pyMinDegree)
  /\ shellsDone' = shellsDone \cup {i}
  /\ UNCHANGED <<pc, nodes, pyMaxDegree, pyMinDegree, error, degreeFilter, totalMaxEdges,
                 permutations, adjTriuMasks, built, graphs, dedupIdx, uniqueGraphs,
                 uniqueGraphsList, result>>
  /\ UNCHANGED <<walkVars, graphVars>>

\* after the first region: the permutation table and the adjacency masks
PrepareTables ==
  /\ pc = "enumerate"
  /\ shellsDone = shellRange(Len(nodes), pyMaxDegree)
  /\ permutations' = permutationTable(nodes).permutations
  /\ adjTriuMasks' = buildAdjTriuMasks(Len(nodes))
  /\ pc' = "graphs"
  /\ UNCHANGED <<nodes, pyMaxDegree, pyMinDegree, error, degreeFilter, totalMaxEdges,
                 shellsDone, trius, built, graphs, dedupIdx, uniqueGraphs,
                 uniqueGraphsList, result>>
  /\ UNCHANGED <<walkVars, graphVars>>

triusIndices == 0..(Len(trius) - 1)

\* one iteration of the loop over trius, merged into graphs
ConstructGraph(i) ==
  /\ pc = "graphs"
  /\ i \in triusIndices \ built
  /\ \/ Len(trius) <= MaxShuffle
     \/ i = nextInOrder(triusIndices, built)
  /\ LET graph == Graph(nodes, At(trius, i), degreeFilter, adjTriuMasks)
     IN graphs' = IF graph.connected THEN Append(graphs, graph) ELSE graphs
  /\ built' = built \cup {i}
  /\ UNCHANGED <<pc, nodes, pyMaxDegree, pyMinDegree, error, degreeFilter, totalMaxEdges,
                 shellsDone, trius, permutations, adjTriuMasks, dedupIdx, uniqueGraphs,
                 uniqueGraphsList, result>>
  /\ UNCHANGED <<walkVars, graphVars>>

\* the bucket of a new graph after the loop over its retained graphs
\* a filter that compares a candidate with the first representative only
filterIntoFirstOnly(bucket, graph, nNodes, masks, perms) ==
  IF Len(bucket) > 0 /\ operatorEq(bucket[1], graph, nNodes, masks, perms)
  THEN bucket
  ELSE Append(bucket, graph)

filterInto(bucket, graph, nNodes, masks, perms) ==
  IF \E k \in 1..Len(bucket) : operatorEq(bucket[k], graph, nNodes, masks, perms)
  THEN bucket
  ELSE Append(bucket, graph)

\* one iteration of the loop that filters out identical graphs
FilterGraph ==
  /\ pc = "graphs"
  /\ built = triusIndices
  /\ dedupIdx < Len(graphs)
  /\ LET graph == At(graphs, dedupIdx)
         key == graph.representation
     IN uniqueGraphs' =
          [r \in DOMAIN uniqueGraphs \cup {key} |->
             IF r # key THEN uniqueGraphs[r]
             ELSE IF key \notin DOMAIN uniqueGraphs THEN <<graph>>
             ELSE filterInto(uniqueGraphs[key], graph, Len(nodes), adjTriuMasks,
                             permutations)]
  /\ dedupIdx' = dedupIdx + 1
  /\ UNCHANGED <<pc, nodes, pyMaxDegree, pyMinDegree, error, degreeFilter, totalMaxEdges,
                 shellsDone, trius, permutations, adjTriuMasks, built, graphs,
                 uniqueGraphsList, result>>
  /\ UNCHANGED <<walkVars, graphVars>>

\* operator< of std::vector<int>, the order of the keys of uniqueGraphs
RECURSIVE lexLess(_, _)
lexLess(a, b) ==
  IF b = <<>> THEN FALSE
  ELSE IF a = <<>> THEN TRUE
  ELSE IF Head(a) # Head(b) THEN Head(a) < Head(b)
  ELSE lexLess(Tail(a), Tail(b))

\* the buckets of the map, concatenated in the order of their keys
RECURSIVE flattenBuckets(_, _)
flattenBuckets(map, keys) ==
  IF keys = {} THEN <<>>
  ELSE LET first == CHOOSE a \in keys : \A b \in keys \ {a} : lexLess(a, b)
       IN map[first] \o flattenBuckets(map, keys \ {first})

\* the remaining graphs as a single list, converted to edge lists and returned
ReturnEdges ==
  /\ pc = "graphs"
  /\ built = triusIndices
  /\ dedupIdx = Len(graphs)
  /\ uniqueGraphsList' = flattenBuckets(uniqueGraphs, DOMAIN uniqueGraphs)
  /\ result' = [k \in 1..Len(uniqueGraphsList') |->
                  getEdges(uniqueGraphsList'[k].adjacencyTriu, Len(nodes), adjTriuMasks)]
  /\ pc' = "returned"
  /\ UNCHANGED <<nodes, pyMaxDegree, pyMinDegree, error, degreeFilter, totalMaxEdges,
                 shellsDone, trius, permutations, adjTriuMasks, built, graphs, dedupIdx,
                 uniqueGraphs>>
  /\ UNCHANGED <<walkVars, graphVars>>

Next ==
  \/ generatePyEdges
  \/ \E i \in 0..triuSizeOf(MaxSize) : EnumerateShell(i)
  \/ PrepareTables
  \/ \E i \in triusIndices : ConstructGraph(i)
  \/ FilterGraph
  \/ ReturnEdges

Spec == Init /\ [][Next]_vars

\* ------------------------------------------- the shell loop, step by step
\* a worker enters the body of the loop over the edge counts for one i
ShellEnter ==
  /\ wPc = "idle"
  /\ \E nNodes \in 2..MaxNodes, maxDeg \in MaxDegreeArgs, minDeg \in MinDegreeArgs :
       /\ 0 <= minDeg /\ minDeg <= maxDeg
       /\ \E i \in shellRange(nNodes, maxDeg) :
            /\ Binomial(triuSizeOf(nNodes), i) <= MaxShellWork
            /\ wNodes' = nNodes
            /\ wMaxDegree' = maxDeg
            /\ wMinDegree' = minDeg
            /\ wI' = i
            /\ wV' = shellStart(i)
  /\ wPc' = "loop"
  /\ UNCHANGED <<wPrev, wCount, wBuf>>
  /\ UNCHANGED <<callVars, graphVars>>

\* one iteration of the while loop
ShellIteration ==
  /\ wPc = "loop"
  /\ Leq(wV, shellEnd(wI, wNodes))
  /\ LET st == shellStep([v |-> wV, buf |-> wBuf], shellEnd(wI, wNodes),
                         calculateDegreeFilter(wNodes), wNodes, wMaxDegree, wMinDegree)
     IN /\ wV' = st.v
        /\ wBuf' = st.buf
  /\ wPrev' = wV
  /\ wCount' = wCount + 1
  /\ UNCHANGED <<wPc, wNodes, wMaxDegree, wMinDegree, wI>>
  /\ UNCHANGED <<callVars, graphVars>>

\* the loop condition fails
ShellExit ==
  /\ wPc = "loop"
  /\ ~Leq(wV, shellEnd(wI, wNodes))
  /\ wPc' = "exit"
  /\ UNCHANGED <<wNodes, wMaxDegree, wMinDegree, wI, wV, wPrev, wCount, wBuf>>
  /\ UNCHANGED <<callVars, graphVars>>

NextShell == ShellEnter \/ ShellIteration \/ ShellExit

SpecShell == Init /\ [][NextShell]_vars

\* ------------------------------ the tables of a call and Graph objects
\* the adjacency values of n nodes with at least minEdges set bits
\* (the values are built from the sets of at most size - minEdges cleared bits)
RECURSIVE subsetsUpTo(_, _)
subsetsUpTo(S, r) ==
  IF r <= 0 THEN {{}}
  ELSE LET smaller == subsetsUpTo(S, r - 1)
       IN smaller \cup UNION {{T \cup {x} : x \in S \ T} : T \in smaller}

adjacencySpace(nNodes, minEdges) ==
  LET all == 0..(triuSizeOf(nNodes) - 1)
  IN IF minEdges <= 0 THEN SUBSET all
     ELSE {all \ T : T \in subsetsUpTo(all, triuSizeOf(nNodes) - minEdges)}

\* the least edge count from which on there are at most limit adjacency values
RECURSIVE denseFrom(_, _, _)
denseFrom(nNodes, k, limit) ==
  IF shellWork(k, triuSizeOf(nNodes), nNodes) <= limit THEN k
  ELSE denseFrom(nNodes, k + 1, limit)

\* the adjacency values two Graph objects are built from
pairSpace(nNodes) == adjacencySpace(nNodes, denseFrom(nNodes, 0, MaxGraphSpace))

\* the adjacency values a single Graph object is built from
singleSpace(nNodes) == adjacencySpace(nNodes, denseFrom(nNodes, 0, MaxSingleSpace))

RECURSIVE Factorial(_)
Factorial(k) == IF k <= 1 THEN 1 ELSE k * Factorial(k - 1)

RECURSIVE Product(_)
Product(s) == IF s = <<>> THEN 1 ELSE Head(s) * Product(Tail(s))

\* the nodes of one color
NodesOfColor(colors, c) == {a \in 0..(Len(colors) - 1) : colors[a + 1] = c}

ColorsOf(colors) == {colors[k] : k \in 1..Len(colors)}

\* the product over the colors of the factorial of the number of their nodes
factorialProduct(colors) ==
  Product([c1 \in 1..(colors[Len(colors)] + 1) |->
             Factorial(Cardinality(NodesOfColor(colors, c1 - 1)))])

\* generateEdges, lines 65-68 and 88-102: degreeFilter, indexMap,
\* permutations and adjTriuMasks for a valid node vector
BuildTables ==
  /\ gPc = "idle"
  /\ \E k \in 2..MaxNodes : \E nodeVector \in Colorings(k) :
       LET built0 == permutationTable(nodeVector)
       IN /\ factorialProduct(nodeVector) <= MaxPermutations
          /\ gNodes' = nodeVector
          /\ gDegreeFilter' = calculateDegreeFilter(k)
          /\ gIndexMap' = built0.indexMap
          /\ gPermutations' = built0.permutations
          /\ gAdjTriuMasks' = buildAdjTriuMasks(k)
  /\ gPc' = "tables"
  /\ UNCHANGED <<gGraphs, gEqual>>
  /\ UNCHANGED <<callVars, walkVars>>

\* Graph::Graph on the tables, for one adjacency value
NewGraph ==
  /\ gPc = "tables"
  /\ Len(gGraphs) < 2
  /\ gGraphs # <<>> =>
       popcountll(gGraphs[1].adjacencyTriu) >= denseFrom(Len(gNodes), 0, MaxGraphSpace)
  /\ \E adj \in (IF gGraphs = <<>> THEN singleSpace(Len(gNodes))
                  ELSE pairSpace(Len(gNodes))) :
       gGraphs' = Append(gGraphs, Graph(gNodes, adj, gDegreeFilter, gAdjTriuMasks))
  /\ UNCHANGED <<gPc, gNodes, gDegreeFilter, gIndexMap, gPermutations, gAdjTriuMasks,
                 gEqual>>
  /\ UNCHANGED <<callVars, walkVars>>

\* Graph::operator== between the two objects, in every argument order
CompareGraphs ==
  /\ gPc = "tables"
  /\ Len(gGraphs) = 2
  /\ gEqual' = [a \in 1..2 |-> [b \in 1..2 |->
                  operatorEq(gGraphs[a], gGraphs[b], Len(gNodes), gAdjTriuMasks,
                             gPermutations)]]
  /\ gPc' = "compared"
  /\ UNCHANGED <<gNodes, gDegreeFilter, gIndexMap, gPermutations, gAdjTriuMasks, gGraphs>>
  /\ UNCHANGED <<callVars, walkVars>>

NextGraph == BuildTables \/ NewGraph \/ CompareGraphs

SpecGraph == Init /\ [][NextGraph]_vars

\* ----------------------------------------------------------------------
\* Graphs as the properties speak of them: a graph on the nodes 0..n-1 is a
\* set of pairs <<i, j>> with i < j.  Nothing below uses the bit encoding.
NodeIds(n) == 0..(n - 1)

AllPairs(n) == {e \in NodeIds(n) \X NodeIds(n) : e[1] < e[2]}

EdgeSet(edges) == {edges[k] : k \in 1..Len(edges)}

Degree(E, v) == Cardinality({e \in E : e[1] = v \/ e[2] = v})

DegreesWithin(E, n, lo, hi) == \A v \in NodeIds(n) : lo <= Degree(E, v) /\ Degree(E, v) <= hi

\* the nodes reachable from the set R in at most k steps
RECURSIVE Reach(_, _, _)
Reach(E, R, k) ==
  IF k = 0 THEN R
  ELSE Reach(E, R \cup {e[2] : e \in {f \in E : f[1] \in R}}
                   \cup {e[1] : e \in {f \in E : f[2] \in R}}, k - 1)

IsConnected(E, n) == Reach(E, {0}, n) = NodeIds(n)

\* the injective maps from the nodes a..n-1 into the set free that keep every
\* node's color, as sets of pairs <<node, image>>
RECURSIVE ColorMaps(_, _, _)
ColorMaps(colors, a, free) ==
  IF a >= Len(colors) THEN {{}}
  ELSE UNION {{m \cup {<<a, b>>} : m \in ColorMaps(colors, a + 1, free \ {b})} :
                b \in {c \in free : colors[c + 1] = colors[a + 1]}}

\* the permutations of the nodes that keep every node's color
ColorPreserving(colors) ==
  {[a \in NodeIds(Len(colors)) |-> (CHOOSE e \in m : e[1] = a)[2]] :
     m \in ColorMaps(colors, 0, NodeIds(Len(colors)))}

Relabel(E, p) ==
  {IF p[e[1]] < p[e[2]] THEN <<p[e[1]], p[e[2]]>> ELSE <<p[e[2]], p[e[1]]>> : e \in E}

\* some permutation of the set P maps the graph E onto the graph F
IsomorphicBy(P, E, F) == \E p \in P : Relabel(E, p) = F

\* the arguments satisfy the preconditions of the interface
Preconditions(nodeTuple, maxDeg, minDeg) ==
  /\ minDeg <= maxDeg
  /\ minDeg >= 0
  /\ 1 <= Len(nodeTuple)
  /\ Len(nodeTuple) <= MaxSize
  /\ nodeTuple[1] = 0
  /\ \A i \in 2..Len(nodeTuple) :
       nodeTuple[i] = nodeTuple[i - 1] \/ nodeTuple[i] = nodeTuple[i - 1] + 1

\* the graphs the call has to represent
Feasible(n, maxDeg, minDeg) ==
  {E \in SUBSET AllPairs(n) : IsConnected(E, n) /\ DegreesWithin(E, n, minDeg, maxDeg)}

\* C1: when a call on at least two nodes has returned, every connected graph
\* on the nodes whose degrees all lie in [minDegree, maxDegree] is isomorphic,
\* under a color-preserving permutation, to exactly one returned edge list.
Completeness ==
  (pc = "returned" /\ Len(nodes) >= 2) =>
    LET P == ColorPreserving(nodes)
    IN \A E \in Feasible(Len(nodes), pyMaxDegree, pyMinDegree) :
         Cardinality({k \in 1..Len(result) : IsomorphicBy(P, EdgeSet(result[k]), E)}) = 1

\* C2: the returned list never holds, at two different positions, edge lists
\* that are relabelings of each other under a color-preserving permutation.
NoIsomorphicResults ==
  pc = "returned" =>
    LET P == ColorPreserving(nodes)
    IN \A a, b \in 1..Len(result) :
         a < b => ~IsomorphicBy(P, EdgeSet(result[a]), EdgeSet(result[b]))

\* a call returned fewer edge lists than it had connected candidates, and
\* one bucket of the map holds two representatives
CollapsedWithSharedBucket ==
  /\ pc = "returned"
  /\ Len(result) < Len(graphs)
  /\ \E r \in DOMAIN uniqueGraphs : Len(uniqueGraphs[r]) >= 2

\* an edge list describes a connected graph on all n nodes with every degree
\* in [lo, hi]
SoundEdges(edges, n, lo, hi) ==
  /\ EdgeSet(edges) \subseteq AllPairs(n)
  /\ IsConnected(EdgeSet(edges), n)
  /\ DegreesWithin(EdgeSet(edges), n, lo, hi)

\* C3 as claimed: every returned edge list of every call (one node or more)
\* is connected with all degrees in [minDegree, maxDegree].
SoundnessFromOneNode ==
  pc = "returned" =>
    \A k \in 1..Len(result) : SoundEdges(result[k], Len(nodes), pyMinDegree, pyMaxDegree)

\* C3: every returned edge list of a call on at least two nodes is connected
\* with all degrees in [minDegree, maxDegree]; the edge list a single-node
\* call returns is, exactly when minDegree is 0.
Soundness ==
  pc = "returned" =>
    /\ Len(nodes) >= 2 =>
         \A k \in 1..Len(result) :
           SoundEdges(result[k], Len(nodes), pyMinDegree, pyMaxDegree)
    /\ Len(nodes) = 1 =>
         \A k \in 1..Len(result) :
           SoundEdges(result[k], 1, pyMinDegree, pyMaxDegree) <=> pyMinDegree = 0

\* a call returned graphs after the degree check and the connectivity check
\* had each discarded candidates
ReturnedAfterDiscards ==
  /\ pc = "returned"
  /\ Len(result) > 0
  /\ Len(graphs) < Len(trius)
  /\ Len(trius) < shellWork(Len(nodes) - 1, totalMaxEdges, Len(nodes))

\* C4: a call with the single node 0 and 0 <= minDegree <= maxDegree returns
\* exactly one result, the empty edge list.
SingleNodeGivesOneEmptyList ==
  (pc # "idle" /\ nodes = <<0>> /\ 0 <= pyMinDegree /\ pyMinDegree <= pyMaxDegree) =>
    (pc = "returned" /\ error = "" /\ result = << <<>> >>)

\* a single-node call has returned although minDegree asks for a neighbour
SingleNodeReturned ==
  /\ pc = "returned"
  /\ nodes = <<0>>
  /\ pyMinDegree >= 1
  /\ Len(result) = 1

\* the classes of the graphs a call enumerates, computed without any order:
\* every adjacency value of the bit space whose edge count lies in the
\* enumerated range and that passes the degree and the connectivity check,
\* taken with all its relabelings
EdgesOfBits(bits, nNodes) ==
  LET pairs == triuLoop(0, 1, nNodes)
  IN {pairs[k] : k \in {c \in 1..Len(pairs) : (Len(pairs) - c) \in bits}}

EnumeratedClasses(P) ==
  LET n == Len(nodes)
      kept == {bits \in SUBSET (0..(triuSizeOf(n) - 1)) :
                 /\ Cardinality(bits) \in shellRange(n, pyMaxDegree)
                 /\ DegreesWithin(EdgesOfBits(bits, n), n, pyMinDegree, pyMaxDegree)
                 /\ IsConnected(EdgesOfBits(bits, n), n)}
  IN {{Relabel(EdgesOfBits(bits, n), p) : p \in P} : bits \in kept}

\* C5: whatever the order in which the two parallel loops were merged, a call
\* returns as many edge lists as there are classes among the graphs it
\* enumerates, and the classes of the returned lists are exactly those.
OrderIndependence ==
  (pc = "returned" /\ Len(nodes) >= 2) =>
    LET P == ColorPreserving(nodes)
        classes == EnumeratedClasses(P)
    IN /\ Len(result) = Cardinality(classes)
       /\ {{Relabel(EdgeSet(result[k]), p) : p \in P} : k \in 1..Len(result)} = classes

\* a call has returned whose connected candidates were merged out of
\* iteration order and whose list of results is shorter than that of the
\* candidates
MergedOutOfOrder ==
  /\ pc = "returned"
  /\ Len(result) < Len(graphs)
  /\ \E a, b \in 1..Len(graphs) :
       /\ a < b
       /\ popcountll(graphs[a].adjacencyTriu) = popcountll(graphs[b].adjacencyTriu)
       /\ ~Leq(graphs[a].adjacencyTriu, graphs[b].adjacencyTriu)

NodeCountErrors ==
  {"Node value tuple must not be empty", "Only up to 11 nodes are supported"}

DegreeBoundErrors ==
  {"max_degree must be greater than or equal to min_degree",
   "min_degree must be a non-negative integer"}

BadNodeCount == Len(nodes) = 0 \/ Len(nodes) > MaxSize

NothingEnumerated ==
  /\ shellsDone = {} /\ trius = <<>> /\ built = {} /\ graphs = <<>>
  /\ dedupIdx = 0 /\ uniqueGraphs = <<>> /\ result = <<>>

\* C6 as claimed: a call with no node or more than 11 nodes fails with the
\* node-count error whatever the degree arguments are.
NodeCountErrorAlways ==
  (pc # "idle" /\ BadNodeCount) =>
    (pc = "error" /\ error \in NodeCountErrors /\ NothingEnumerated)

\* C6: a call with no node or more than 11 nodes fails before anything is
\* enumerated; the error is the node-count error when 0 <= minDegree <=
\* maxDegree, and the degree-bounds error otherwise.
NodeCountRejected ==
  (pc # "idle" /\ BadNodeCount) =>
    /\ pc = "error"
    /\ NothingEnumerated
    /\ IF 0 <= pyMinDegree /\ pyMinDegree <= pyMaxDegree
       THEN error \in NodeCountErrors
       ELSE error \in DegreeBoundErrors

\* a call with more than 11 nodes was rejected with the node-count error
OversizedRejected ==
  /\ pc = "error"
  /\ Len(nodes) > MaxSize
  /\ error = "Only up to 11 nodes are supported"

BitOfPair(e, n) ==
  triuSizeOf(n) - 1
    - Cardinality({f \in AllPairs(n) : f[1] < e[1] \/ (f[1] = e[1] /\ f[2] < e[2])})

\* C8: every returned edge is a pair first < second < n, the edges of one
\* list are in strictly increasing row-major order (so none is repeated), and
\* they are exactly the pairs whose bit is set in the adjacency encoding of
\* the representative the list was made from.
EdgeListsWellFormed ==
  (pc = "returned" /\ Len(nodes) >= 2) =>
    /\ Len(result) = Len(uniqueGraphsList)
    /\ \A k \in 1..Len(result) :
         LET edges == result[k]
             adj == uniqueGraphsList[k].adjacencyTriu
         IN /\ \A m \in 1..Len(edges) :
                 /\ 0 <= edges[m][1] /\ edges[m][1] < edges[m][2]
                 /\ edges[m][2] < Len(nodes)
            /\ \A m \in 1..(Len(edges) - 1) :
                 \/ edges[m][1] < edges[m + 1][1]
                 \/ (edges[m][1] = edges[m + 1][1] /\ edges[m][2] < edges[m + 1][2])
            /\ EdgeSet(edges) = {e \in AllPairs(Len(nodes)) : BitOfPair(e, Len(nodes)) \in adj}
            /\ Len(edges) = Cardinality(adj)

\* a call returned an edge list with edges of two different first nodes
SeveralRowsReturned ==
  /\ pc = "returned"
  /\ \E k \in 1..Len(result) :
       \E a, b \in 1..Len(result[k]) : result[k][a][1] < result[k][b][1]

\* the number a bit set stands for, and the bit count of a number
RECURSIVE Val(_)
Val(bits) == IF bits = {} THEN 0 ELSE LET m == SetMax(bits) IN 2 ^ m + Val(bits \ {m})

RECURSIVE PopInt(_)
PopInt(x) == IF x = 0 THEN 0 ELSE (x % 2) + PopInt(x \div 2)

\* C9: the loop of the edge count c starts at 2^c - 1; each advance yields
\* the smallest larger number with c set bits; every value handled lies in
\* the n(n-1)/2-bit space; and the loop ends right after the value with the
\* c top bits set, having handled each of the Binomial(n(n-1)/2, c) values
\* with c set bits once.
ShellLoopExact ==
  wPc # "idle" =>
    LET size == triuSizeOf(wNodes)
        top == (2 ^ wI - 1) * 2 ^ (size - wI)
    IN /\ wCount = 0 => Val(wV) = 2 ^ wI - 1
       /\ wCount > 0 =>
            /\ PopInt(Val(wPrev)) = wI
            /\ PopInt(Val(wV)) = wI
            /\ Val(wPrev) < Val(wV)
            /\ Val(wPrev) <= top
            /\ \A x \in (Val(wPrev) + 1)..(Val(wV) - 1) : PopInt(x) # wI
       /\ wPc = "loop" => wCount <= Binomial(size, wI)
       /\ wPc = "exit" =>
            /\ wCount = Binomial(size, wI)
            /\ Val(wPrev) = top

\* the loop of the edge count 5 on 5 nodes has ended after 252 values
LongShellFinished ==
  /\ wPc = "exit"
  /\ wNodes = 5
  /\ wI = 5
  /\ wCount = 252

\* min(n * maxDegree / 2, n(n-1)/2) over the integers: n * maxDegree / 2 is
\* at least n(n-1)/2 as soon as maxDegree is at least n - 1
ExactMaxEdges(n, maxDeg) ==
  IF maxDeg >= n - 1 THEN triuSizeOf(n) ELSE (n * maxDeg) \div 2

\* C10: for every accepted maxDegree the enumerated edge counts end at
\* min(n * maxDegree / 2, n(n-1)/2), so a maxDegree of at least n - 1 gives
\* the range of maxDegree = n - 1.
EdgeCountRange ==
  (pc \in {"enumerate", "graphs", "returned"} /\ Len(nodes) >= 2) =>
    /\ totalMaxEdges = ExactMaxEdges(Len(nodes), pyMaxDegree)
    /\ pyMaxDegree >= Len(nodes) - 1 =>
         totalMaxEdges = totalMaxEdgesOf(Len(nodes), Len(nodes) - 1)

\* C11: upperTriuIndex is a bijection from the pairs i < j onto
\* 0..n(n-1)/2 - 1; the bit the adjacency mask of a pair selects lies in the
\* degree filter of a node exactly when the node is an end of the pair; and
\* for every Graph object and every node, the popcount of the adjacency value
\* under the node's degree filter is the number of edges of the extracted
\* edge list that contain the node.  The tables are examined in the state in
\* which they have just been built, every Graph object in the state in which
\* it has just been constructed.
DegreeFilterCorrect ==
  gPc # "idle" =>
    LET n == Len(gNodes)
        idx(e) == upperTriuIndex(e[1], e[2], n)
        pairs == AllPairs(n)
    IN /\ gGraphs = <<>> =>
            /\ {idx(e) : e \in pairs} = 0..(triuSizeOf(n) - 1)
            /\ \A e, f \in pairs : idx(e) = idx(f) => e = f
            /\ \A e \in pairs :
                 /\ Cardinality(At(gAdjTriuMasks, idx(e))) = 1
                 /\ \A v \in NodeIds(n) :
                      (And(At(gAdjTriuMasks, idx(e)), At(gDegreeFilter, v)) # {})
                        <=> (v = e[1] \/ v = e[2])
            /\ \A v \in NodeIds(n) : Cardinality(At(gDegreeFilter, v)) = n - 1
       /\ (gPc = "tables" /\ gGraphs # <<>>) =>
            LET adjacency == gGraphs[Len(gGraphs)].adjacencyTriu
                E == EdgeSet(getEdges(adjacency, n, gAdjTriuMasks))
            IN \A v \in NodeIds(n) :
                 popcountll(And(adjacency, At(gDegreeFilter, v))) = Degree(E, v)

\* a Graph object on five nodes in which the last node has four neighbours,
\* the first node one and a node in between two
StarWithChordBuilt ==
  /\ gPc = "tables"
  /\ Len(gNodes) = 5
  /\ Len(gGraphs) = 1
  /\ popcountll(And(gGraphs[1].adjacencyTriu, At(gDegreeFilter, 4))) = 4
  /\ popcountll(And(gGraphs[1].adjacencyTriu, At(gDegreeFilter, 0))) = 1
  /\ popcountll(And(gGraphs[1].adjacencyTriu, At(gDegreeFilter, 2))) = 2

\* C12: the permutation table holds exactly the permutations of the nodes
\* that keep every node's color, each once; its size is the product over the
\* colors of the factorial of the number of nodes of the color; the identity
\* is in it; and when the build has returned, the pool of every color holds
\* the nodes of the color in increasing order, as before the build.  The
\* tables do not change once they are built, so the state in which the build
\* has just returned is the one examined.
PermutationTableExact ==
  (gPc = "tables" /\ gGraphs = <<>>) =>
    LET n == Len(gNodes)
        asMap(p) == [a \in NodeIds(n) |-> At(p, a)]
    IN /\ \A k \in 1..Len(gPermutations) :
            /\ Len(gPermutations[k]) = n
            /\ {At(gPermutations[k], a) : a \in NodeIds(n)} = NodeIds(n)
            /\ \A a \in NodeIds(n) : At(gNodes, At(gPermutations[k], a)) = At(gNodes, a)
       /\ {asMap(gPermutations[k]) : k \in 1..Len(gPermutations)} = ColorPreserving(gNodes)
       /\ Cardinality({gPermutations[k] : k \in 1..Len(gPermutations)}) = Len(gPermutations)
       /\ Len(gPermutations) = factorialProduct(gNodes)
       /\ \E k \in 1..Len(gPermutations) : gPermutations[k] = [a \in 1..n |-> a - 1]
       /\ DOMAIN gIndexMap = ColorsOf(gNodes)
       /\ \A c \in ColorsOf(gNodes) :
            /\ {gIndexMap[c][k] : k \in 1..Len(gIndexMap[c])} = NodesOfColor(gNodes, c)
            /\ \A k \in 1..(Len(gIndexMap[c]) - 1) : gIndexMap[c][k] < gIndexMap[c][k + 1]

\* the table of three nodes of one color and two of another has been built
TwelvePermutationsBuilt ==
  /\ gPc = "tables"
  /\ gNodes = <<0, 0, 0, 1, 1>>
  /\ Len(gPermutations) = 12
  /\ gIndexMap[0] = <<0, 1, 2>>
  /\ gIndexMap[1] = <<3, 4>>

\* rep is the invariant vector of the graph E on nodes of the given colors:
\* the edge count, then for every color the degrees of its nodes in
\* non-decreasing order, then for every pair of colors a <= b, row by row,
\* the number of edges between a node of color a and a node of color b
IsInvariantVector(rep, E, colors) ==
  LET n == Len(colors)
      m == colors[n] + 1
      colorPairs == {q \in (0..(m - 1)) \X (0..(m - 1)) : q[1] <= q[2]}
      offset(q) == Cardinality({r \in colorPairs :
                                  r[1] < q[1] \/ (r[1] = q[1] /\ r[2] < q[2])})
      endColors(e) == {colors[e[1] + 1], colors[e[2] + 1]}
  IN /\ Len(rep) = 1 + n + Cardinality(colorPairs)
     /\ rep[1] = Cardinality(E)
     /\ \A c \in 0..(m - 1) :
          LET members == NodesOfColor(colors, c)
              first == SetMin(members)
              segment == {1 + first + k : k \in 1..Cardinality(members)}
          IN /\ \A k \in segment : (k + 1) \in segment => rep[k] <= rep[k + 1]
             /\ \A d \in 0..n :
                  Cardinality({k \in segment : rep[k] = d})
                    = Cardinality({a \in members : Degree(E, a) = d})
     /\ \A q \in colorPairs :
          rep[1 + n + offset(q) + 1]
            = Cardinality({e \in E : endColors(e) = {q[1], q[2]}})

\* C13: the representation of a Graph object, examined when the object has
\* just been constructed, is its invariant vector, and
\* two Graph objects of which one is the other relabeled by a permutation of
\* the table have equal representations: they fall into the same bucket, and
\* operator== does not reject them.
InvariantVectorPreserved ==
  /\ (gPc = "tables" /\ gGraphs # <<>>) =>
       LET last == gGraphs[Len(gGraphs)]
       IN IsInvariantVector(last.representation,
                            EdgesOfBits(last.adjacencyTriu, Len(gNodes)), gNodes)
  /\ gPc = "compared" =>
       LET n == Len(gNodes)
           A == gGraphs[1]
           B == gGraphs[2]
           EA == EdgesOfBits(A.adjacencyTriu, n)
           EB == EdgesOfBits(B.adjacencyTriu, n)
       IN \A k \in 1..Len(gPermutations) :
            permutationMatches(A, B, gPermutations[k], n, gAdjTriuMasks) =>
              /\ A.representation = B.representation
              /\ Relabel(EA, [a \in NodeIds(n) |-> At(gPermutations[k], a)]) = EB
              /\ gEqual[1][2]

\* two different Graph objects on nodes of two colors were compared; one is
\* the other relabeled, and two nodes of one color differ in their degree
RelabeledPairCompared ==
  /\ gPc = "compared"
  /\ gNodes = <<0, 0, 0, 1>>
  /\ gGraphs[1].adjacencyTriu # gGraphs[2].adjacencyTriu
  /\ gGraphs[1].representation = gGraphs[2].representation
  /\ gEqual[1][2]
  /\ popcountll(And(gGraphs[1].adjacencyTriu, At(gDegreeFilter, 0)))
       > popcountll(And(gGraphs[1].adjacencyTriu, At(gDegreeFilter, 1)))

\* C14: on the Graph objects of one call operator== is reflexive, symmetric
\* and transitive, and it holds between two objects exactly when a
\* color-preserving permutation relabels one into the other, so one
\* comparison with a retained representative, in either argument order,
\* decides whether a candidate's class is represented.
OperatorEqEquivalence ==
  gPc = "compared" =>
    LET n == Len(gNodes)
        A == gGraphs[1]
        B == gGraphs[2]
    IN /\ gEqual[1][1]
       /\ gEqual[2][2]
       /\ gEqual[1][2] = gEqual[2][1]
       /\ gEqual[1][2] =>
            \A adj \in pairSpace(n) :
              LET other == Graph(gNodes, adj, gDegreeFilter, gAdjTriuMasks)
              IN operatorEq(B, other, n, gAdjTriuMasks, gPermutations)
                   = operatorEq(A, other, n, gAdjTriuMasks, gPermutations)
       /\ gEqual[1][2] = IsomorphicBy(ColorPreserving(gNodes),
                                      EdgesOfBits(A.adjacencyTriu, n),
                                      EdgesOfBits(B.adjacencyTriu, n))

\* two different Graph objects on two nodes of each of two colors were found
\* equal in both argument orders
EqualInBothOrders ==
  /\ gPc = "compared"
  /\ gNodes = <<0, 0, 1, 1>>
  /\ gGraphs[1].adjacencyTriu # gGraphs[2].adjacencyTriu
  /\ gEqual[1][2]
  /\ gEqual[2][1]

====
